---- MODULE Spec2Model ----
(***************************************************************************)
(* cupchan: a single-writer / single-reader triple-buffer channel.         *)
(*                                                                         *)
(* The shared block (struct Cupchan) holds three cups, the atomic status   *)
(* word `state` and the atomic flag `unconnected`.  A CupchanWriter caches *)
(* the cup it owns (current_cup); a CupchanReader holds only the block.    *)
(* Every atomic access of the code is one step of the model; a mutation    *)
(* through DerefMut is an interval (WriteBegin .. WriteEnd) and a read     *)
(* through Deref is read() (load, compare-exchange) followed by the read   *)
(* of the returned cup.  compare_exchange_weak is taken not to fail        *)
(* spuriously.                                                             *)
(***************************************************************************)
EXTENDS Integers, FiniteSets, Sequences, TLC

\* ------------------------------------------------------------------ bounds
\* Number of values v1..vn the writer role writes (v_k is the integer k).
MaxVal == 3
\* Number of handle identities available per role.
MaxHandles == 2
\* Number of overtaken read accesses through one reader at a time.
MaxOvertaken == 1

H == 1..MaxHandles
\* The seed passed to cupchan(initial); a partially written payload.
Seed == 0
Torn == -1

\* ------------------------------------------------------- the lookup tables
RECURSIVE Xor(_, _)
Xor(a, b) ==
    IF a = 0 THEN b
    ELSE IF b = 0 THEN a
    ELSE (((a % 2) + (b % 2)) % 2) + 2 * Xor(a \div 2, b \div 2)

OBJECT_PERMUTATIONS == <<0, 1, 2, 3, 4, 5>>
\* The position of <S> in the layout each permutation code stands for
\* (<W><S><R>, <W><R><S>, <S><R><W>, <S><W><R>, <R><S><W>, <R><W><S>).
STORAGE_CUP_MAP == <<1, 2, 0, 0, 1, 2, 3, 3, 1, 2, 0, 0, 1, 2, 3, 3>>

\* Mutant: the publish masks do not set the fresh bit.
WRITER_STATE_MAP_NoFresh ==
    <<3, 3, 3, 3, 1, 1, 255, 255, 3, 3, 3, 3, 1, 1, 255, 255>>
\* Mutant: the masks of the fresh words toggle the fresh bit too.
WRITER_STATE_MAP_TogglesFresh ==
    <<11, 11, 11, 11, 9, 9, 255, 255, 11, 11, 11, 11, 9, 9, 255, 255>>
\* Mutant: the publish masks set the fresh bit and exchange no roles.
WRITER_STATE_MAP_FreshOnly ==
    <<8, 8, 8, 8, 8, 8, 255, 255, 0, 0, 0, 0, 0, 0, 255, 255>>
\* Mutant: the publish masks exchange the reader and the storage roles.
WRITER_STATE_MAP_SwapsReader ==
    <<9, 9, 14, 14, 14, 14, 255, 255, 1, 1, 6, 6, 6, 6, 255, 255>>
\* Mutant: the mask of 0b1100 is 0b0011, which leads to an invalid word.
WRITER_STATE_MAP_BadMask ==
    <<11, 11, 11, 11, 9, 9, 255, 255, 3, 3, 3, 3, 3, 1, 255, 255>>
WRITER_STATE_MAP ==
    <<11, 11, 11, 11, 9, 9, 255, 255, 3, 3, 3, 3, 1, 1, 255, 255>>
\* Mutant: the entry of <S><W><R> names cup 2, the reader's.
WRITER_CUP_MAP_Typo == <<0, 0, 2, 2, 2, 1, 3, 3, 0, 0, 2, 2, 2, 1, 3, 3>>
WRITER_CUP_MAP == <<0, 0, 2, 1, 2, 1, 3, 3, 0, 0, 2, 1, 2, 1, 3, 3>>

\* Mutant: the consume masks exchange the writer and the storage roles.
READER_STATE_MAP_SwapsWriter ==
    <<0, 0, 0, 0, 0, 0, 255, 255, 11, 11, 11, 11, 9, 9, 255, 255>>
\* Mutant: the consume masks leave the fresh bit set.
READER_STATE_MAP_KeepsFresh ==
    <<0, 0, 0, 0, 0, 0, 255, 255, 1, 1, 6, 6, 6, 6, 255, 255>>
READER_STATE_MAP ==
    <<0, 0, 0, 0, 0, 0, 255, 255, 9, 9, 14, 14, 14, 14, 255, 255>>
\* Mutant: the entry of <R><W><S> names cup 2, the storage cup.
READER_CUP_MAP_Typo == <<2, 1, 1, 2, 0, 2, 3, 3, 2, 1, 1, 2, 0, 2, 3, 3>>
\* Mutant: the entry of <R><W><S> names cup 1, the writer's.
READER_CUP_MAP_SameAsWriter ==
    <<2, 1, 1, 2, 0, 1, 3, 3, 2, 1, 1, 2, 0, 1, 3, 3>>
READER_CUP_MAP == <<2, 1, 1, 2, 0, 0, 3, 3, 2, 1, 1, 2, 0, 0, 3, 3>>

\* tab[s] of the code (0-based); an index outside the table panics.
InTable(s) == s \in 0..15
At(tab, s) == tab[s + 1]
\* cups[tab[s]] is a cup: s is in the table and the entry is not 3.
CupOK(tab, s) == InTable(s) /\ At(tab, s) <= 2

\* state ^ WRITER_STATE_MAP[state] and state ^ READER_STATE_MAP[state]
WriterNext(s) == Xor(s, At(WRITER_STATE_MAP, s))
ReaderNext(s) == Xor(s, At(READER_STATE_MAP, s))

\* Bit 3 of the status word, the one the 0b1xxx masks toggle.
Fresh(s) == (s \div 8) % 2 = 1
\* The words the tables do not mark invalid.
ValidWords == (0..5) \cup (8..13)
\* The cups of the writer, the reader and the storage under status word s.
Roles(s) == <<At(WRITER_CUP_MAP, s), At(READER_CUP_MAP, s),
             At(STORAGE_CUP_MAP, s)>>

\* ------------------------------------------------------------------- state
VARIABLES
    state,        \* Cupchan::state, the status word
    unconnected,  \* Cupchan::unconnected
    cups,         \* Cupchan::cups, the payload of each of the three cups
    destroyed,    \* how many times drop_in_place ran on the block
    writers,      \* the CupchanWriter handles, by identity
    readers,      \* the CupchanReader handles, by identity
    ret,          \* result of the new_X() call that has just returned
    nextv,        \* index of the next value the writer role writes
    flushed,      \* highest value published by a flush so far
    lastObs,      \* value returned by the most recent completed read access
    disciplined,  \* every flush so far was preceded by a write of its own
    reconnected,  \* some new_reader()/new_writer() call has returned a handle
    uaf,          \* some step has touched the block after its destruction
    pending       \* a flush has completed since the last consume

vars == <<state, unconnected, cups, destroyed, writers, readers, ret,
          nextv, flushed, lastObs, disciplined, reconnected, uaf, pending>>

\* (panicked: an operation on the handle, or its construction, has panicked;
\* the panic unwinds out of the call and leaves the handle as it was.)
NoWriter == [pc |-> "dead", cup |-> 0, prev |-> 0, tries |-> 0,
             dirty |-> FALSE, by |-> 0, panicked |-> FALSE]
NoReader == [pc |-> "dead", prev |-> 0, got |-> 0, floor |-> 0,
             repl |-> FALSE, nread |-> 0, held |-> {}, panicked |-> FALSE]

\* A handle value exists (constructed or under construction, not yet dropped).
WOccupied(w) == writers[w].pc \notin {"dead", "drop_free"}
ROccupied(r) == readers[r].pc \notin {"dead", "drop_free"}
LiveWriters == {w \in H : WOccupied(w)}
LiveReaders == {r \in H : ROccupied(r)}

\* The identity a newly constructed handle takes.
FreeId(hs) == CHOOSE i \in H : hs[i].pc = "dead" /\ \A j \in 1..(i - 1) : hs[j].pc # "dead"
HasFreeId(hs) == \E i \in H : hs[i].pc = "dead"

\* Every access to the block after drop_in_place is a use after free.
Touch == uaf' = (uaf \/ destroyed > 0)

\* cupchan(initial)
Init ==
    /\ state = OBJECT_PERMUTATIONS[1]
    /\ unconnected = FALSE
    /\ cups = [c \in 0..2 |-> Seed]
    /\ destroyed = 0
    /\ writers = [w \in H |-> IF w = 1 THEN [NoWriter EXCEPT !.pc = "idle"] ELSE NoWriter]
    /\ readers = [r \in H |-> IF r = 1 THEN [NoReader EXCEPT !.pc = "idle"] ELSE NoReader]
    /\ ret = "none"
    /\ nextv = 1
    /\ flushed = 0
    /\ lastObs = Seed
    /\ disciplined = TRUE
    /\ reconnected = FALSE
    /\ uaf = FALSE
    /\ pending = FALSE

Max(a, b) == IF a >= b THEN a ELSE b

\* ------------------------------------------------------------ CupchanWriter
\* DerefMut::deref_mut followed by the caller's assignment `*writer = v`:
\* the mutation of the cached cup begins ...
WriteBegin(w) ==
    /\ writers[w].pc = "idle"
    /\ nextv <= MaxVal
    /\ writers' = [writers EXCEPT ![w].pc = "writing"]
    /\ ret' = "none"
    /\ Touch
    /\ UNCHANGED pending
    /\ UNCHANGED <<state, unconnected, cups, destroyed, readers, nextv,
                   flushed, lastObs, disciplined, reconnected>>

\* ... and ends: the cup now holds the complete new value.
WriteEnd(w) ==
    /\ writers[w].pc = "writing"
    /\ cups' = [cups EXCEPT ![writers[w].cup] = nextv]
    /\ nextv' = nextv + 1
    /\ writers' = [writers EXCEPT ![w].pc = "idle", ![w].dirty = TRUE]
    /\ ret' = "none"
    /\ Touch
    /\ UNCHANGED pending
    /\ UNCHANGED <<state, unconnected, destroyed, readers, flushed, lastObs,
                   disciplined, reconnected>>

\* flush(): fetch_update's initial load of the status word.
FlushLoad(w) ==
    /\ writers[w].pc = "idle"
    /\ writers' = [writers EXCEPT ![w].pc = "flush_cas", ![w].prev = state,
                                  ![w].tries = 0]
    /\ disciplined' = (disciplined /\ writers[w].dirty)
    /\ ret' = "none"
    /\ Touch
    /\ UNCHANGED pending
    /\ UNCHANGED <<state, unconnected, cups, destroyed, readers, nextv,
                   flushed, lastObs, reconnected>>

\* flush(): one attempt of fetch_update.  The closure computes
\* prev ^ WRITER_STATE_MAP[prev] (a lookup that panics when prev is outside
\* the table) and compare_exchange installs it if the word is still prev;
\* on failure the observed word is retried.  After the installation
\* current_cup is refreshed from WRITER_CUP_MAP and cups, lookups that panic,
\* the word already installed, when it is outside the table or names cup 3.
\* A panic ends the call and leaves current_cup as it was.
FlushCas(w) ==
    /\ writers[w].pc = "flush_cas"
    /\ LET prev == writers[w].prev
           n    == IF writers[w].tries > 2 THEN writers[w].tries
                   ELSE writers[w].tries + 1
       IN  IF ~InTable(prev)
           THEN /\ writers' = [writers EXCEPT ![w].pc = "idle", ![w].prev = 0,
                                              ![w].panicked = TRUE]
                /\ UNCHANGED <<state, flushed, pending>>
           ELSE IF state = prev
           THEN /\ state' = WriterNext(prev)
                /\ flushed' = Max(flushed, cups[writers[w].cup])
                /\ pending' = TRUE
                /\ writers' =
                      IF CupOK(WRITER_CUP_MAP, WriterNext(prev))
                      THEN [writers EXCEPT
                              ![w].pc = "idle", ![w].prev = 0, ![w].tries = n,
                              ![w].dirty = FALSE,
                              ![w].cup = At(WRITER_CUP_MAP, WriterNext(prev))]
                      ELSE [writers EXCEPT
                              ![w].pc = "idle", ![w].prev = 0, ![w].tries = n,
                              ![w].dirty = FALSE, ![w].panicked = TRUE]
           ELSE /\ writers' = [writers EXCEPT ![w].prev = state, ![w].tries = n]
                /\ UNCHANGED <<state, flushed, pending>>
    /\ ret' = "none"
    /\ Touch
    /\ UNCHANGED <<unconnected, cups, destroyed, readers, nextv, lastObs,
                   disciplined, reconnected>>

\* Mutant: new_reader() hands out a reader whatever the flag was.
NewReader_Unconditional(w) ==
    /\ writers[w].pc = "idle"
    /\ HasFreeId(readers)
    /\ unconnected' = FALSE
    /\ readers' = [readers EXCEPT ![FreeId(readers)] =
                      [NoReader EXCEPT !.pc = "idle", !.repl = TRUE]]
    /\ ret' = "some"
    /\ reconnected' = TRUE
    /\ Touch
    /\ UNCHANGED pending
    /\ UNCHANGED <<state, cups, destroyed, writers, nextv, flushed, lastObs,
                   disciplined>>

\* Mutant: new_reader() swaps true into the flag instead of false.
NewReader_SwapTrue(w) ==
    /\ writers[w].pc = "idle"
    /\ unconnected => HasFreeId(readers)
    /\ unconnected' = TRUE
    /\ IF unconnected
       THEN /\ readers' = [readers EXCEPT ![FreeId(readers)] =
                              [NoReader EXCEPT !.pc = "idle", !.repl = TRUE]]
            /\ ret' = "some"
            /\ reconnected' = TRUE
       ELSE /\ ret' = "empty"
            /\ UNCHANGED <<readers, reconnected>>
    /\ Touch
    /\ UNCHANGED pending
    /\ UNCHANGED <<state, cups, destroyed, writers, nextv, flushed, lastObs,
                   disciplined>>

\* new_reader(): unconnected.swap(false); a reader only if it was true.
NewReader(w) ==
    /\ writers[w].pc = "idle"
    /\ unconnected => HasFreeId(readers)
    /\ unconnected' = FALSE
    /\ IF unconnected
       THEN /\ readers' = [readers EXCEPT ![FreeId(readers)] =
                              [NoReader EXCEPT !.pc = "idle", !.repl = TRUE]]
            /\ ret' = "some"
            /\ reconnected' = TRUE
       ELSE /\ ret' = "empty"
            /\ UNCHANGED <<readers, reconnected>>
    /\ Touch
    /\ UNCHANGED pending
    /\ UNCHANGED <<state, cups, destroyed, writers, nextv, flushed, lastObs,
                   disciplined>>

\* Mutant: the writer's drop destroys the block when the flag was false.
WriterDropSwap_Inverted(w) ==
    /\ writers[w].pc = "idle"
    /\ unconnected' = TRUE
    /\ writers' = [writers EXCEPT ![w] =
                      IF ~unconnected THEN [NoWriter EXCEPT !.pc = "drop_free"]
                      ELSE NoWriter]
    /\ ret' = "none"
    /\ Touch
    /\ UNCHANGED pending
    /\ UNCHANGED <<state, cups, destroyed, readers, nextv, flushed, lastObs,
                   disciplined, reconnected>>

\* Mutant: the writer's drop loads the flag and leaves it as it was.
WriterDropSwap_LoadOnly(w) ==
    /\ writers[w].pc = "idle"
    /\ writers' = [writers EXCEPT ![w] =
                      IF unconnected THEN [NoWriter EXCEPT !.pc = "drop_free"]
                      ELSE NoWriter]
    /\ ret' = "none"
    /\ Touch
    /\ UNCHANGED pending
    /\ UNCHANGED <<state, unconnected, cups, destroyed, readers, nextv,
                   flushed, lastObs, disciplined, reconnected>>

\* Drop for CupchanWriter: unconnected.swap(true) ...
WriterDropSwap(w) ==
    /\ writers[w].pc = "idle"
    /\ unconnected' = TRUE
    /\ writers' = [writers EXCEPT ![w] =
                      IF unconnected THEN [NoWriter EXCEPT !.pc = "drop_free"]
                      ELSE NoWriter]
    /\ ret' = "none"
    /\ Touch
    /\ UNCHANGED pending
    /\ UNCHANGED <<state, cups, destroyed, readers, nextv, flushed, lastObs,
                   disciplined, reconnected>>

\* ... and, when it was already true, drop_in_place of the block.
WriterDropFree(w) ==
    /\ writers[w].pc = "drop_free"
    /\ destroyed' = IF destroyed > 1 THEN destroyed ELSE destroyed + 1
    /\ writers' = [writers EXCEPT ![w] = NoWriter]
    /\ ret' = "none"
    /\ Touch
    /\ UNCHANGED pending
    /\ UNCHANGED <<state, unconnected, cups, readers, nextv, flushed, lastObs,
                   disciplined, reconnected>>

\* Mutant: a new writer starts on cup 0, as the first writer did.
WriterNew_FirstCup(w) ==
    /\ writers[w].pc = "new"
    /\ writers' = [writers EXCEPT ![w] = [NoWriter EXCEPT !.pc = "idle"]]
    /\ ret' = "some"
    /\ reconnected' = TRUE
    /\ Touch
    /\ UNCHANGED pending
    /\ UNCHANGED <<state, unconnected, cups, destroyed, readers, nextv,
                   flushed, lastObs, disciplined>>

\* CupchanWriter::new: the load of the status word that picks current_cup,
\* after which new_writer() returns Some(writer).  The lookups panic on a
\* word outside the table or one that names cup 3: no handle is constructed
\* and new_writer() returns nothing.
WriterNew(w) ==
    /\ writers[w].pc = "new"
    /\ IF CupOK(WRITER_CUP_MAP, state)
       THEN /\ writers' = [writers EXCEPT ![w] =
                              [NoWriter EXCEPT !.pc = "idle",
                                               !.cup = At(WRITER_CUP_MAP, state)]]
            /\ ret' = "some"
            /\ reconnected' = TRUE
       ELSE /\ writers' = [writers EXCEPT ![w] =
                              [NoWriter EXCEPT !.panicked = TRUE]]
            /\ ret' = "none"
            /\ UNCHANGED reconnected
    /\ Touch
    /\ UNCHANGED pending
    /\ UNCHANGED <<state, unconnected, cups, destroyed, readers, nextv,
                   flushed, lastObs, disciplined>>

\* ------------------------------------------------------------ CupchanReader
\* read(): fetch_update's initial load of the status word.
ReadLoad(r) ==
    /\ readers[r].pc = "idle"
    /\ readers' = [readers EXCEPT ![r].pc = "read_cas", ![r].prev = state,
                                  ![r].floor = flushed]
    /\ ret' = "none"
    /\ Touch
    /\ UNCHANGED pending
    /\ UNCHANGED <<state, unconnected, cups, destroyed, writers, nextv,
                   flushed, lastObs, disciplined, reconnected>>

\* read(): one attempt of fetch_update.  The closure computes
\* prev ^ READER_STATE_MAP[prev] (a lookup that panics when prev is outside
\* the table) and compare_exchange installs it if the word is still prev;
\* on failure the observed word is retried.  After the installation the cup
\* READER_CUP_MAP names is returned, lookups that panic, the word already
\* installed, when it is outside the table or names cup 3.  A panic ends
\* the call and returns no cup.
ReadCas(r) ==
    /\ readers[r].pc = "read_cas"
    /\ LET prev == readers[r].prev
       IN  IF ~InTable(prev)
           THEN /\ readers' = [readers EXCEPT ![r].pc = "idle", ![r].prev = 0,
                                              ![r].floor = 0,
                                              ![r].panicked = TRUE]
                /\ UNCHANGED <<state, pending>>
           ELSE IF state = prev
           THEN /\ state' = ReaderNext(prev)
                /\ pending' = (pending /\ ReaderNext(prev) = prev)
                /\ readers' =
                      IF CupOK(READER_CUP_MAP, ReaderNext(prev))
                      THEN [readers EXCEPT
                              ![r].pc = "read_deref", ![r].prev = 0,
                              ![r].got = At(READER_CUP_MAP, ReaderNext(prev))]
                      ELSE [readers EXCEPT
                              ![r].pc = "idle", ![r].prev = 0, ![r].floor = 0,
                              ![r].panicked = TRUE]
           ELSE /\ readers' = [readers EXCEPT ![r].prev = state]
                /\ UNCHANGED <<state, pending>>
    /\ ret' = "none"
    /\ Touch
    /\ UNCHANGED <<unconnected, cups, destroyed, writers, nextv, flushed,
                   lastObs, disciplined, reconnected>>

\* What a read of cup c yields: its content, unless a writer is in the middle
\* of mutating it (a data race: the old, the new or a partial value).
ReadOutcomes(c) ==
    IF \E w \in H : writers[w].pc = "writing" /\ writers[w].cup = c
    THEN {cups[c], nextv, Torn}
    ELSE {cups[c]}

\* Deref::deref: the caller reads the cup read() returned and lets the
\* returned reference go.
ReadDeref(r) ==
    /\ readers[r].pc = "read_deref"
    /\ \E v \in ReadOutcomes(readers[r].got) : lastObs' = v
    /\ readers' = [readers EXCEPT ![r].pc = "idle", ![r].got = 0,
                                  ![r].floor = 0, ![r].nread = 1]
    /\ ret' = "none"
    /\ Touch
    /\ UNCHANGED pending
    /\ UNCHANGED <<state, unconnected, cups, destroyed, writers, nextv,
                   flushed, disciplined, reconnected>>

\* Deref::deref: the caller reads the cup read() returned and keeps the
\* returned reference, which borrows the reader (&self) for as long as the
\* caller likes, further read accesses included.
ReadKeep(r) ==
    /\ readers[r].pc = "read_deref"
    /\ \E v \in ReadOutcomes(readers[r].got) : lastObs' = v
    /\ readers' = [readers EXCEPT
          ![r].pc = "idle", ![r].got = 0, ![r].floor = 0, ![r].nread = 1,
          ![r].held = readers[r].held \cup {readers[r].got}]
    /\ ret' = "none"
    /\ Touch
    /\ UNCHANGED pending
    /\ UNCHANGED <<state, unconnected, cups, destroyed, writers, nextv,
                   flushed, disciplined, reconnected>>

\* CupchanReader is Sync and read() takes &self: another thread starts a
\* read access through the same reader while an access is between its
\* steps.  read(): the initial load of that other access.  The access it
\* overtakes keeps the cup it was returned and has yet to read
\* (ReadOvertaken); one overtaken before its compare_exchange keeps only the
\* word it loaded, and its compare_exchange succeeds exactly when a
\* compare_exchange on a fresh load would, so it is carried on as an access
\* that loads anew.
ReadLoadOther(r) ==
    /\ readers[r].pc \in {"read_cas", "read_deref"}
    /\ readers[r].pc = "read_deref" => Cardinality(readers[r].held) < MaxOvertaken
    /\ readers' = [readers EXCEPT
          ![r].pc = "read_cas", ![r].prev = state, ![r].got = 0,
          ![r].floor = flushed,
          ![r].held = IF readers[r].pc = "read_deref"
                      THEN readers[r].held \cup {readers[r].got}
                      ELSE readers[r].held]
    /\ ret' = "none"
    /\ Touch
    /\ UNCHANGED pending
    /\ UNCHANGED <<state, unconnected, cups, destroyed, writers, nextv,
                   flushed, lastObs, disciplined, reconnected>>

\* Deref::deref of an overtaken access: it reads, at last, the cup read()
\* returned to it, and its reference goes.
ReadOvertaken(r) ==
    /\ ROccupied(r)
    /\ \E c \in readers[r].held :
          /\ \E v \in ReadOutcomes(c) : lastObs' = v
          /\ readers' = [readers EXCEPT ![r].held = readers[r].held \ {c},
                                        ![r].nread = 1]
    /\ ret' = "none"
    /\ Touch
    /\ UNCHANGED pending
    /\ UNCHANGED <<state, unconnected, cups, destroyed, writers, nextv,
                   flushed, disciplined, reconnected>>

\* The caller lets go of a reference Deref::deref returned earlier.
ReadRelease(r) ==
    /\ ROccupied(r)
    /\ \E c \in readers[r].held :
          readers' = [readers EXCEPT ![r].held = readers[r].held \ {c}]
    /\ ret' = "none"
    /\ UNCHANGED <<state, unconnected, cups, destroyed, writers, nextv,
                   flushed, lastObs, disciplined, reconnected, uaf, pending>>

\* Mutant: new_writer() loads the flag and leaves it set.
NewWriter_KeepsFlag(r) ==
    /\ readers[r].pc \in {"idle", "read_cas", "read_deref"}
    /\ unconnected => HasFreeId(writers)
    /\ IF unconnected
       THEN /\ writers' = [writers EXCEPT ![FreeId(writers)] =
                              [NoWriter EXCEPT !.pc = "new", !.by = r]]
            /\ ret' = "none"
       ELSE /\ ret' = "empty"
            /\ UNCHANGED writers
    /\ Touch
    /\ UNCHANGED pending
    /\ UNCHANGED <<state, unconnected, cups, destroyed, readers, nextv,
                   flushed, lastObs, disciplined, reconnected>>

\* new_writer(): unconnected.swap(false).  A false flag returns the empty
\* result at once; a true flag goes on to CupchanWriter::new (WriterNew), and
\* the call has returned nothing until that has.
NewWriter(r) ==
    /\ readers[r].pc \in {"idle", "read_cas", "read_deref"}
    /\ unconnected => HasFreeId(writers)
    /\ unconnected' = FALSE
    /\ IF unconnected
       THEN /\ writers' = [writers EXCEPT ![FreeId(writers)] =
                              [NoWriter EXCEPT !.pc = "new", !.by = r]]
            /\ ret' = "none"
       ELSE /\ ret' = "empty"
            /\ UNCHANGED writers
    /\ Touch
    /\ UNCHANGED pending
    /\ UNCHANGED <<state, cups, destroyed, readers, nextv, flushed, lastObs,
                   disciplined, reconnected>>

\* Mutant: the reader's drop destroys the block whatever the flag was.
ReaderDropSwap_AlwaysFree(r) ==
    /\ readers[r].pc = "idle"
    /\ readers[r].held = {}
    /\ \A w \in H : ~(writers[w].pc = "new" /\ writers[w].by = r)
    /\ unconnected' = TRUE
    /\ readers' = [readers EXCEPT ![r] = [NoReader EXCEPT !.pc = "drop_free"]]
    /\ ret' = "none"
    /\ Touch
    /\ UNCHANGED pending
    /\ UNCHANGED <<state, cups, destroyed, writers, nextv, flushed, lastObs,
                   disciplined, reconnected>>

\* Mutant: the reader's drop also clears the fresh bit of the status word.
ReaderDropSwap_ClearsFresh(r) ==
    /\ readers[r].pc = "idle"
    /\ readers[r].held = {}
    /\ \A w \in H : ~(writers[w].pc = "new" /\ writers[w].by = r)
    /\ unconnected' = TRUE
    /\ state' = state % 8
    /\ readers' = [readers EXCEPT ![r] =
                      IF unconnected THEN [NoReader EXCEPT !.pc = "drop_free"]
                      ELSE NoReader]
    /\ ret' = "none"
    /\ Touch
    /\ UNCHANGED pending
    /\ UNCHANGED <<cups, destroyed, writers, nextv, flushed, lastObs,
                   disciplined, reconnected>>

\* Drop for CupchanReader: unconnected.swap(true) ...
ReaderDropSwap(r) ==
    /\ readers[r].pc = "idle"
    /\ readers[r].held = {}
    /\ \A w \in H : ~(writers[w].pc = "new" /\ writers[w].by = r)
    /\ unconnected' = TRUE
    /\ readers' = [readers EXCEPT ![r] =
                      IF unconnected THEN [NoReader EXCEPT !.pc = "drop_free"]
                      ELSE NoReader]
    /\ ret' = "none"
    /\ Touch
    /\ UNCHANGED pending
    /\ UNCHANGED <<state, cups, destroyed, writers, nextv, flushed, lastObs,
                   disciplined, reconnected>>

\* ... and, when it was already true, drop_in_place of the block.
ReaderDropFree(r) ==
    /\ readers[r].pc = "drop_free"
    /\ destroyed' = IF destroyed > 1 THEN destroyed ELSE destroyed + 1
    /\ readers' = [readers EXCEPT ![r] = NoReader]
    /\ ret' = "none"
    /\ Touch
    /\ UNCHANGED pending
    /\ UNCHANGED <<state, unconnected, cups, writers, nextv, flushed, lastObs,
                   disciplined, reconnected>>

\* --------------------------------------------------------- the specification
Next ==
    \/ \E w \in H : WriteBegin(w)
    \/ \E w \in H : WriteEnd(w)
    \/ \E w \in H : FlushLoad(w)
    \/ \E w \in H : FlushCas(w)
    \/ \E w \in H : NewReader(w)
    \/ \E w \in H : WriterDropSwap(w)
    \/ \E w \in H : WriterDropFree(w)
    \/ \E w \in H : WriterNew(w)
    \/ \E r \in H : ReadLoad(r)
    \/ \E r \in H : ReadCas(r)
    \/ \E r \in H : ReadDeref(r)
    \/ \E r \in H : NewWriter(r)
    \/ \E r \in H : ReaderDropSwap(r)
    \/ \E r \in H : ReaderDropFree(r)

Spec == Init /\ [][Next]_vars

\* The reader polls: weak fairness on the steps of read access.
ReaderPoll == \E r \in H : ReadLoad(r) \/ ReadCas(r) \/ ReadDeref(r)
FairSpec == Spec /\ WF_vars(ReaderPoll)

\* The same program with callers that may also keep the references that
\* Deref::deref returns.
HoldNext ==
    \/ Next
    \/ \E r \in H : ReadKeep(r)
    \/ \E r \in H : ReadRelease(r)

HoldSpec == Init /\ [][HoldNext]_vars

\* The same program with a reader that threads share (it is Sync), so that
\* read accesses through it overlap.
SharedNext ==
    \/ Next
    \/ \E r \in H : ReadLoadOther(r)
    \/ \E r \in H : ReadOvertaken(r)

SharedSpec == Init /\ [][SharedNext]_vars

\* ------------------------------------------------------------------ claims
Reading(r) == readers[r].pc = "read_deref"
Writing(w) == writers[w].pc = "writing"

\* C1: no torn reads.  The cup a reader is about to read is never the cup a
\* writer is in the middle of mutating, and every value a read access
\* returned is complete and is the seed or a value a flush has published.
C1_NoTornReads ==
    /\ \A r \in H : \A w \in H :
          Reading(r) /\ Writing(w) => writers[w].cup # readers[r].got
    /\ lastObs # Torn
    /\ lastObs \in 0..flushed

\* C1 witness: a reader is about to read a published value while the writer
\* is in the middle of mutating its own cup.
C1_Witness ==
    \E r \in H : \E w \in H :
        /\ Reading(r) /\ Writing(w)
        /\ cups[readers[r].got] >= 1
        /\ nextv >= 3

\* C2: monotonic observation.  While every flush follows a write of its own,
\* the value returned by a read access is never older than the value the
\* previous read access returned.
C2_Monotonic == [][disciplined' => lastObs' >= lastObs]_vars

\* C2 witness: the reader has observed the last value of a disciplined run
\* in which the writer republished while the reader was reading.
C2_Witness ==
    /\ disciplined
    /\ lastObs = MaxVal
    /\ \E w \in H : writers[w].pc = "idle" /\ writers[w].tries = 2

\* C3: latest-value convergence.  A read access that begins after the flush
\* of the last value vn returns vn, and once vn is flushed a polling reader
\* eventually observes it (as long as a reader exists and no flush without a
\* write follows).
C3_Convergence ==
    /\ [](\A r \in H : Reading(r) /\ readers[r].floor = MaxVal /\ disciplined
                         => cups[readers[r].got] = MaxVal)
    /\ (flushed = MaxVal /\ disciplined)
          ~> (lastObs = MaxVal \/ ~disciplined \/ LiveReaders = {})

\* C3 witness: the writer has stopped after flushing vn and the reader, still
\* there, has observed vn.
C3_Witness ==
    /\ disciplined
    /\ flushed = MaxVal
    /\ lastObs = MaxVal
    /\ ~reconnected
    /\ readers[1].pc = "idle"
    /\ writers[1].pc = "idle"

\* C4: exactly-once deallocation without reconnection.  With the two original
\* handles only, the block is destroyed at most once, the drop that destroys
\* it swapped the flag after the other drop did, and once both drops have
\* run the block has been destroyed.
C4_ExactlyOnceNoReconnect ==
    ~reconnected =>
        /\ destroyed <= 1
        /\ destroyed = 1 => writers[1].pc = "dead" /\ readers[1].pc = "dead"
        /\ writers[1].pc = "drop_free" => readers[1].pc = "dead"
        /\ readers[1].pc = "drop_free" => writers[1].pc = "dead"
        /\ writers[1].pc = "dead" /\ readers[1].pc = "dead" => destroyed = 1

\* C4 witness: both original handles dropped with no reconnection, the block
\* destroyed once, after values were exchanged.
C4_Witness ==
    /\ ~reconnected
    /\ destroyed = 1
    /\ lastObs >= 1

NoHandleLeft ==
    /\ LiveWriters = {}
    /\ LiveReaders = {}
Freeing ==
    \/ \E w \in H : writers[w].pc = "drop_free"
    \/ \E r \in H : readers[r].pc = "drop_free"

\* C5: lifecycle safety with reconnection.  The block is destroyed at most
\* once, only by a drop that left no handle, it is destroyed once no handle
\* is left, and no step ever touches the block after its destruction.
C5_LifecycleSafety ==
    /\ destroyed <= 1
    /\ ~uaf
    /\ Freeing => NoHandleLeft /\ destroyed = 0
    /\ destroyed = 1 => NoHandleLeft
    /\ NoHandleLeft => Freeing \/ destroyed = 1

\* C5 witness: the block destroyed after a replacement reader had been
\* created and used.
C5_Witness ==
    /\ destroyed = 1
    /\ reconnected
    /\ lastObs = MaxVal

\* C6: at-most-one occupancy.  At most one writer handle and at most one
\* reader handle exist at any time.
C6_AtMostOne ==
    /\ Cardinality(LiveWriters) <= 1
    /\ Cardinality(LiveReaders) <= 1

\* C6 witness: after a reconnection, with both roles occupied, a further
\* claim has just been refused.
C6_Witness ==
    /\ reconnected
    /\ ret = "empty"
    /\ Cardinality(LiveWriters) = 1
    /\ Cardinality(LiveReaders) = 1

Vacancy == (LiveWriters = {}) # (LiveReaders = {})

\* The step is the flag swap of a new_reader()/new_writer() call that found
\* the flag set: new_reader() returns its reader in the same step,
\* new_writer() goes on to construct the writer.
ClaimWon ==
    \/ ret' = "some" /\ readers' # readers
    \/ \E w \in H : writers[w].pc # "new" /\ writers'[w].pc = "new"

\* The step is the flag swap of a new_reader()/new_writer() call.
ClaimMade == ret' = "empty" \/ ClaimWon

\* The step is the return of CupchanWriter::new inside new_writer(w).
WriterBuilt(w) == writers[w].pc = "new" /\ writers'[w] # writers[w]

\* C7: reconnect after a drop.  While one role is vacant the block is alive.
\* A new_reader()/new_writer() call wins the flag exactly when the role it
\* claims was vacant just before its swap, and winning fills the vacancy, so
\* of the calls made during one vacancy exactly the first wins and every
\* other returns the empty result.  The call that won returns a handle: for
\* new_writer() that is the step in which CupchanWriter::new returns, which
\* yields a usable writer and reports the handle, and no new_writer() call
\* reports a handle in any other step.
C7_ReconnectOnce ==
    /\ [](Vacancy => destroyed = 0)
    /\ [][ClaimMade =>
            /\ ClaimWon = Vacancy
            /\ ClaimWon = (ret' # "empty")
            /\ ClaimWon => ~Vacancy']_vars
    /\ [][\A w \in H : WriterBuilt(w) =>
                           ret' = "some" /\ writers'[w].pc = "idle"]_vars
    /\ [][ret' = "some" =>
            /\ ClaimWon \/ \E w \in H : WriterBuilt(w)
            /\ ~Vacancy'
            /\ Cardinality(LiveWriters') = 1
            /\ Cardinality(LiveReaders') = 1]_vars

\* C7 witness: new_writer() has just returned the replacement writer to the
\* original reader, after the original writer published and was dropped.
C7_Witness ==
    /\ ret = "some"
    /\ reconnected
    /\ ~unconnected
    /\ flushed >= 1
    /\ \E w \in H : writers[w].pc = "idle" /\ writers[w].tries = 0
    /\ \A r \in H : ROccupied(r) => ~readers[r].repl

\* C8: a failed claim leaves the state unchanged.  With a writer and a reader
\* both present, a new_reader()/new_writer() call loses the flag and returns
\* the empty result, and an empty result changes neither the flag, the status
\* word, the cups nor any handle.  A call returns a reader only when no
\* reader was left, and a writer only from a call that won the flag when no
\* writer was left.
C8_FailedClaimNoChange ==
    /\ [][ClaimMade /\ LiveWriters # {} /\ LiveReaders # {} =>
            ret' = "empty" /\ ~ClaimWon]_vars
    /\ [][ret' = "empty" =>
            UNCHANGED <<state, unconnected, cups, destroyed, writers, readers>>]_vars
    /\ [][ret' = "some" /\ readers' # readers =>
            LiveReaders = {} /\ unconnected]_vars
    /\ [][\A w \in H : writers[w].pc # "new" /\ writers'[w].pc = "new" =>
                           LiveWriters = {} /\ unconnected]_vars
    /\ [][ret' = "some" /\ readers' = readers =>
            \E w \in H : WriterBuilt(w)]_vars

\* C8 witness: both original handles present and new_reader()/new_writer()
\* has just returned the empty result.
C8_Witness ==
    /\ ret = "empty"
    /\ ~reconnected
    /\ writers[1].pc = "idle"
    /\ ROccupied(1)
    /\ ~unconnected

\* C9: published values survive reader replacement.  The first read access
\* of a replacement reader returns a value no older than the last flush
\* completed before the access began and no newer than the last flush
\* completed so far: exactly the latest flushed value when no flush runs
\* during the access, the value adopted before when nothing was flushed since.
C9_ReplacementReads ==
    \A r \in H :
        Reading(r) /\ readers[r].repl /\ readers[r].nread = 0 /\ disciplined =>
            /\ readers[r].floor <= cups[readers[r].got]
            /\ cups[readers[r].got] <= flushed
            /\ \A w \in H : Writing(w) => writers[w].cup # readers[r].got

\* C9 witness: a replacement reader's first read access is about to return
\* the latest flushed value, which its predecessor never observed.
C9_Witness ==
    \E r \in H :
        /\ Reading(r) /\ readers[r].repl /\ readers[r].nread = 0
        /\ disciplined
        /\ readers[r].floor = flushed
        /\ cups[readers[r].got] = flushed
        /\ lastObs < flushed

\* C10: flush() is wait-free.  A flush makes at most two compare-exchange
\* attempts: after one failed attempt the status word equals the value the
\* flush retries with, and the attempt of a flush in progress is always
\* enabled, whatever the readers are doing.
C10_FlushWaitFree ==
    \A w \in H :
        /\ writers[w].tries <= 2
        /\ writers[w].pc = "flush_cas" =>
              /\ writers[w].tries <= 1
              /\ writers[w].tries = 1 => state = writers[w].prev
              /\ ENABLED FlushCas(w)

\* C10 witness: a flush has completed on its second attempt.
C10_Witness ==
    \E w \in H : writers[w].pc = "idle" /\ writers[w].tries = 2

\* C11: read-access wait-freedom.  Every read access that is retrying its
\* compare-exchange eventually leaves the retry loop, whatever the writer
\* does, as long as the reader keeps taking steps.
C11_ReadWaitFree ==
    \A r \in H : (readers[r].pc = "read_cas") ~> (readers[r].pc # "read_cas")

\* C12: role bijection.  In every reachable status word the writer's cup,
\* the reader's cup and the storage cup are three distinct cups of {0,1,2}.
C12_RoleBijection ==
    /\ InTable(state)
    /\ LET r == Roles(state)
       IN  /\ {r[1], r[2], r[3]} = {0, 1, 2}
           /\ r[1] # r[2]

\* C12 witness: the roles after two publishes and two consumes, each of the
\* three cups having changed role.
C12_Witness ==
    /\ state = 2
    /\ disciplined
    /\ flushed = 2
    /\ lastObs = 2

\* C13: only valid status words are reachable.  The status word, and every
\* word a handle has loaded, is in {0..5} or {8..13}; every cup index a
\* handle holds is in range; no operation panics.
C13_OnlyValidWords ==
    /\ state \in ValidWords
    /\ \A w \in H :
          /\ ~writers[w].panicked
          /\ writers[w].cup \in 0..2
          /\ writers[w].prev \in ValidWords
    /\ \A r \in H :
          /\ ~readers[r].panicked
          /\ readers[r].got \in 0..2
          /\ readers[r].prev \in ValidWords

\* C13 witness: the word 0b1001 after three publishes, each of a write of
\* its own, which is reached only through the codes 0, 3, 5, 4, 2 and 1 in
\* that order, that is through all six permutation codes.
C13_Witness ==
    /\ state = 9
    /\ disciplined
    /\ flushed = 3
    /\ nextv = 4

\* What the publish transition does to the roles of status word s.
PublishOK(s) ==
    LET t == WriterNext(s)
    IN  /\ t \in ValidWords
        /\ Fresh(t)
        /\ Roles(t)[1] = Roles(s)[3]
        /\ Roles(t)[3] = Roles(s)[1]
        /\ Roles(t)[2] = Roles(s)[2]

\* C14: publish transition.  For every valid status word s, the word
\* s XOR WRITER_STATE_MAP[s] has the fresh bit set, its writer cup is the
\* storage cup of s, its storage cup is the writer cup of s and its reader
\* cup is the reader cup of s; and this is the transition every successful
\* flush makes on the status word, the writer taking the old storage cup.
C14_Publish ==
    [][\A w \in H :
          writers[w].pc = "flush_cas" /\ writers'[w].pc = "idle" =>
             /\ \A s \in ValidWords : PublishOK(s)
             /\ state' = WriterNext(state)
             /\ PublishOK(state)
             /\ writers'[w].cup = Roles(state)[3]]_vars

\* C14 witness: a flush has just published at its second attempt, the
\* reader's consume having changed the word under its first.
C14_Witness ==
    /\ state = 8
    /\ flushed >= 2
    /\ \E w \in H : writers[w].pc = "idle" /\ writers[w].tries = 2

\* What the consume transition does to the roles of status word s.
ConsumeOK(s) ==
    LET t == ReaderNext(s)
    IN  IF Fresh(s)
        THEN /\ t \in ValidWords
             /\ ~Fresh(t)
             /\ Roles(t)[2] = Roles(s)[3]
             /\ Roles(t)[3] = Roles(s)[2]
             /\ Roles(t)[1] = Roles(s)[1]
        ELSE t = s

\* C15: consume transition.  For every valid status word s with the fresh
\* bit set, the word s XOR READER_STATE_MAP[s] has the fresh bit clear, its
\* reader cup is the storage cup of s, its storage cup is the reader cup of
\* s and its writer cup is the writer cup of s; with the fresh bit clear the
\* word stays as it is.  This is the transition every read access makes,
\* and the cup it returns is the reader cup of the resulting word: the old
\* storage cup if the bit was set, the same reader cup as before if not.
C15_Consume ==
    [][\A r \in H :
          readers[r].pc = "read_cas" /\ readers'[r].pc = "read_deref" =>
             /\ \A s \in ValidWords : ConsumeOK(s)
             /\ state' = ReaderNext(state)
             /\ ConsumeOK(state)
             /\ readers'[r].got = Roles(state')[2]
             /\ Fresh(state) => readers'[r].got = Roles(state)[3]
             /\ ~Fresh(state) =>
                   state' = state /\ readers'[r].got = Roles(state)[2]]_vars

\* C15 witness: a read access has consumed the second value published and
\* is about to read it, no flush having followed.
C15_Witness ==
    /\ ~Fresh(state)
    /\ ~pending
    /\ \E r \in H :
          /\ Reading(r)
          /\ readers[r].got = Roles(state)[2]
          /\ cups[readers[r].got] = 2
          /\ lastObs = 1

\* A flush, respectively a read access, completes in this step.
FlushDone == \E w \in H : writers[w].pc = "flush_cas" /\ writers'[w].pc = "idle"
ReadDone == \E r \in H : readers[r].pc = "read_cas" /\ readers'[r].pc = "read_deref"

\* Publish then consume, and consume then publish, applied to word s.
PublishConsume(s) == ReaderNext(WriterNext(s))
ConsumePublish(s) == WriterNext(ReaderNext(s))

\* C16 as stated: publish and consume commute.  On a status word with the
\* fresh bit set, publish then consume yields the same role-to-cup
\* assignment as consume then publish.
C16_Commute ==
    Fresh(state) =>
        Roles(PublishConsume(state)) = Roles(ConsumePublish(state))

\* The two orders on a fresh word s: both results are valid words, they
\* rotate the three cups in opposite directions, and the cup the writer
\* published is the reader's after publish-consume and the storage cup,
\* fresh bit set, after consume-publish.
OrdersOK(s) ==
    LET pc == PublishConsume(s)
        cp == ConsumePublish(s)
    IN  /\ pc \in ValidWords /\ cp \in ValidWords
        /\ ~Fresh(pc) /\ Fresh(cp)
        /\ Roles(pc) = <<Roles(s)[3], Roles(s)[1], Roles(s)[2]>>
        /\ Roles(cp) = <<Roles(s)[2], Roles(s)[3], Roles(s)[1]>>
        /\ Roles(pc) # Roles(cp)
        /\ Roles(ReaderNext(cp))[2] = Roles(pc)[2]

\* C16 amended: publish and consume do not commute.  On every valid word
\* with the fresh bit set the two orders give different role assignments,
\* no role keeping its cup in either; what they agree on is that the cup
\* the writer published is the reader's cup once the reader has consumed.
\* Checked on every valid fresh word, and on the status word each time a
\* flush or a read access is applied to it with the fresh bit set.
C16_OrderMatters ==
    [][(FlushDone \/ ReadDone) /\ Fresh(state) =>
          /\ \A s \in ValidWords : Fresh(s) => OrdersOK(s)
          /\ state \in ValidWords
          /\ OrdersOK(state)]_vars

\* C16 witness: the word 0b0001 after two publishes and one consume, reached
\* only by a publish and then a consume applied to the fresh word 0b1011.
C16_Witness ==
    /\ state = 1
    /\ disciplined
    /\ flushed = 2
    /\ nextv = 3
    /\ lastObs = 2

\* C17: fresh-bit invariant.  The fresh bit is set exactly when a flush has
\* completed since the last consume that changed the status word (or since
\* construction); only a completing flush changes the word with the bit
\* ending set, only a completing read access that finds the bit set changes
\* the word with the bit ending clear, and every other step (drop,
\* new_reader, new_writer, a write, a failed attempt) leaves the word as
\* it is.
C17_FreshBit ==
    [][/\ Fresh(state) = pending
       /\ Fresh(state') = pending'
       /\ state' # state => FlushDone \/ ReadDone
       /\ FlushDone => Fresh(state')
       /\ ReadDone => ~Fresh(state') /\ (state' # state <=> Fresh(state))
       /\ Fresh(state') /\ ~Fresh(state) => FlushDone
       /\ ~Fresh(state') /\ Fresh(state) => ReadDone]_vars

\* C17 witness: the fresh bit set by a flush is still set after the reader
\* was dropped and replaced without a read access in between.
C17_Witness ==
    /\ Fresh(state)
    /\ pending
    /\ flushed >= 1
    /\ lastObs = Seed
    /\ \E r \in H : readers[r].pc = "idle" /\ readers[r].repl

\* A role has a handle until the handle's Drop has returned.
WriterPresent == \E w \in H : writers[w].pc # "dead"
ReaderPresent == \E r \in H : readers[r].pc # "dead"

\* C18: disconnect-flag invariant.  While the block has not been destroyed,
\* the unconnected flag is set exactly when one of the two roles, and only
\* one, has no handle; it is clear whenever both roles have one.  (A handle
\* counts until its Drop has returned, that is the last handle still counts
\* between its swap of the flag and the destruction of the block.)
C18_DisconnectFlag ==
    destroyed = 0 =>
        /\ unconnected <=> (WriterPresent # ReaderPresent)
        /\ WriterPresent /\ ReaderPresent => ~unconnected
        /\ WriterPresent \/ ReaderPresent

\* C18 witness: after a reconnection the reader role is vacant again, the
\* writer is still there and the flag is set.
C18_Witness ==
    /\ destroyed = 0
    /\ unconnected
    /\ reconnected
    /\ LiveReaders = {}
    /\ \E w \in H : writers[w].pc = "idle"
    /\ lastObs >= 1

\* C19: writer cache coherence.  Whenever a writer handle is not in the
\* middle of flush(), its current_cup is the cup the status word names as
\* the writer's; this holds for the first writer after every flush and for
\* a writer new_writer() returned, whatever the reader does meanwhile.
\* (It holds in the middle of a flush too, until the flush succeeds.)
C19_WriterCache ==
    \A w \in H :
        writers[w].pc \in {"idle", "writing", "flush_cas"} =>
            /\ InTable(state)
            /\ writers[w].cup = At(WRITER_CUP_MAP, state)

\* C19 witness: the first reader is still there, so the reconnection that
\* happened was a new_writer(); the writer it returned has flushed, sits on
\* a cup other than cup 0, and the reader has read a second value.
C19_Witness ==
    /\ reconnected
    /\ \E r \in H : readers[r].pc = "idle" /\ ~readers[r].repl
    /\ \E w \in H :
          /\ writers[w].pc = "idle"
          /\ writers[w].cup # 0
          /\ writers[w].tries >= 1
    /\ lastObs >= 2

\* C20: a held read reference stays disjoint from the writer.  The cup a
\* reference returned by a read access points to is never the cup of a live
\* writer, for as long as the reference is held, whatever read accesses and
\* flushes follow.
C20_HeldDisjoint ==
    \A r \in H : \A w \in H :
        writers[w].pc \in {"idle", "writing", "flush_cas"} =>
            writers[w].cup \notin readers[r].held
====
